---- MODULE Spec2Model ----
(***************************************************************************)
(* Model of storage_phase1_analysis.py: the interface partitioning and     *)
(* implementation-coverage analyzer.                                       *)
(*                                                                         *)
(* Text is a sequence of lines (the text split on "\n"); a line is a       *)
(* sequence of tokens.  A token is a maximal run of identifier characters  *)
(* [a-zA-Z0-9_] (written as itself), a maximal run of blanks (written      *)
(* " "), or one punctuation mark ("//", "(", ")", "{", "}", ";").  The     *)
(* regular expressions and string operations of the script are modelled on *)
(* these tokens.                                                           *)
(***************************************************************************)
EXTENDS Integers, Sequences, FiniteSets, TLC

VARIABLES pc, run, interface_text, body, idx, current, sections,
          mem_methods, db_text, db_methods,
          report_file, contracts_file, written,
          prev_db_text, prev_report, prev_contracts

vars == <<pc, run, interface_text, body, idx, current, sections,
          mem_methods, db_text, db_methods,
          report_file, contracts_file, written,
          prev_db_text, prev_report, prev_contracts>>

\* ------------------------------------------------------------------ bounds
MaxBodyLen == 3
MaxRuns == 2

\* ------------------------------------------------------------ token helpers
Punct == {" ", "//", "(", ")", "{", "}", ";"}

IsIdent(t) == t \notin Punct

Max(S) == CHOOSE m \in S : \A k \in S : k <= m

Min(S) == CHOOSE m \in S : \A k \in S : m <= k

RECURSIVE LStrip(_)
LStrip(line) ==
    IF line # <<>> /\ Head(line) = " " THEN LStrip(Tail(line)) ELSE line

RECURSIVE RStrip(_)
RStrip(line) ==
    IF line # <<>> /\ line[Len(line)] = " "
    THEN RStrip(SubSeq(line, 1, Len(line) - 1))
    ELSE line

\* str.strip()
Strip(line) == RStrip(LStrip(line))

\* str.startswith(prefix), prefix a token sequence
StartsWith(line, prefix) ==
    Len(line) >= Len(prefix) /\ SubSeq(line, 1, Len(prefix)) = prefix

\* the positions at which the token sequence pat occurs in line
Occurrences(line, pat) ==
    {p \in 1..(Len(line) - Len(pat) + 1) : SubSeq(line, p, p + Len(pat) - 1) = pat}

\* 'word' in line
Contains(line, word) == \E p \in 1..Len(line) : line[p] = word

\* the text of a token sequence
RECURSIVE Concat(_)
Concat(line) == IF line = <<>> THEN "" ELSE Head(line) \o Concat(Tail(line))

\* the lines of a text that start with "}" in column 0, after line p: the
\* places where the "\n\}" that ends both patterns can match
ClosersAfter(text, p) ==
    {c \in (p + 1)..Len(text) : text[c] # <<>> /\ text[c][1] = "}"}

\* ------------------------------------------------------- interface matching
IStorageHeader == <<"export", " ", "interface", " ", "IStorage", " ", "{">>

\* the lines in which r'export interface IStorage \{' occurs
HeaderLines(text) == {h \in 1..Len(text) : Occurrences(text[h], IStorageHeader) # {}}

\* re.search(r'export interface IStorage \{(.*)\n\}', interface_text, re.S):
\* the leftmost header for which a closing line follows
InterfaceMatches(text) ==
    \E h \in HeaderLines(text) : ClosersAfter(text, h) # {}

\* match.group(1).split('\n'): what follows the header on its line, then the
\* lines up to (not including) the LAST closing line of the text ((.*) is greedy)
InterfaceBody(text) ==
    LET h == Min(HeaderLines(text))
        p == Min(Occurrences(text[h], IStorageHeader))
        c == Max(ClosersAfter(text, h))
    IN  <<SubSeq(text[h], p + Len(IStorageHeader), Len(text[h]))>>
            \o SubSeq(text, h + 1, c - 1)

\* ---------------------------------------------------------- SectionExtractor
\* line.startswith('//')
IsMarker(line) == StartsWith(line, <<"//">>)

\* re.sub(r'^//\s*', '', line)
MarkerTitle(line) == Concat(LStrip(Tail(line)))

\* re.match(r'([a-zA-Z0-9_]+)\(', line): the name as a sequence of 0 or 1 names
SignatureScanner(line) ==
    IF Len(line) >= 2 /\ IsIdent(line[1]) /\ line[2] = "("
    THEN <<line[1]>>
    ELSE <<>>

Titles(secs) == [k \in 1..Len(secs) |-> secs[k].title]

HasSection(secs, title) == \E k \in 1..Len(secs) : secs[k].title = title

\* sections.get(title, [])
MethodsOf(secs, title) ==
    IF HasSection(secs, title)
    THEN secs[CHOOSE k \in 1..Len(secs) : secs[k].title = title].methods
    ELSE <<>>

\* mutant: an existing section is moved to the end (move_to_end on access)
SetDefaultMoveToEnd(secs, title) ==
    SelectSeq(secs, LAMBDA s : s.title # title)
    \o <<[title |-> title, methods |-> MethodsOf(secs, title)]>>

\* sections.setdefault(title, [])
SetDefault(secs, title) ==
    IF HasSection(secs, title)
    THEN secs
    ELSE Append(secs, [title |-> title, methods |-> <<>>])

\* mutant: a name some section already lists is not appended again
AppendMethodOnce(secs, title, name) ==
    LET withSec == IF HasSection(secs, title)
                   THEN secs
                   ELSE Append(secs, [title |-> title, methods |-> <<>>])
        known   == \E k \in 1..Len(secs) : \E i \in 1..Len(secs[k].methods) :
                       secs[k].methods[i] = name
    IN  [k \in 1..Len(withSec) |->
            IF withSec[k].title = title /\ ~known
            THEN [withSec[k] EXCEPT !.methods = Append(@, name)]
            ELSE withSec[k]]

\* sections.setdefault(title, []).append(name)
AppendMethod(secs, title, name) ==
    LET withSec == SetDefault(secs, title)
    IN  [k \in 1..Len(withSec) |->
            IF withSec[k].title = title
            THEN [withSec[k] EXCEPT !.methods = Append(@, name)]
            ELSE withSec[k]]

\* ------------------------------------------------------- MethodSetExtractor
\* the lines in which rf'class\s+{class_name}' occurs
ClassLines(text, class_name) ==
    {p \in 1..Len(text) : Occurrences(text[p], <<"class", " ", class_name>>) # {}}

\* the "{" tokens, as <<line, position>>, that follow the class name matched on
\* line p (.*? with re.S runs over line ends)
BracesAfterClass(text, class_name, p) ==
    LET q == Min(Occurrences(text[p], <<"class", " ", class_name>>)) + 2
    IN  {lt \in UNION {{<<l, t>> : t \in 1..Len(text[l])} : l \in p..Len(text)} :
            /\ text[lt[1]][lt[2]] = "{"
            /\ (lt[1] > p \/ lt[2] > q)}

\* the first of them (.*? is lazy)
OpenBrace(text, class_name, p) ==
    LET bs == BracesAfterClass(text, class_name, p)
        l  == Min({lt[1] : lt \in bs})
    IN  <<l, Min({lt[2] : lt \in {x \in bs : x[1] = l}})>>

\* re.search(rf'class\s+{class_name}.*?\{{(.*)\n\}}', text, re.S) matches
ClassMatches(text, class_name) ==
    /\ ClassLines(text, class_name) # {}
    /\ LET p == Min(ClassLines(text, class_name))
       IN  /\ BracesAfterClass(text, class_name, p) # {}
           /\ ClosersAfter(text, OpenBrace(text, class_name, p)[1]) # {}

\* m.group(1).split('\n'): from the opening brace to the LAST line of the text
\* that starts with "}" ((.*) is greedy)
ClassBlock(text, class_name) ==
    LET p  == Min(ClassLines(text, class_name))
        ob == OpenBrace(text, class_name, p)
        c  == Max(ClosersAfter(text, ob[1]))
    IN  <<SubSeq(text[ob[1]], ob[2] + 1, Len(text[ob[1]]))>>
            \o SubSeq(text, ob[1] + 1, c - 1)

\* stripped.split('(')[0]
BeforeParen(line) ==
    LET ps == {k \in 1..Len(line) : line[k] = "("}
    IN  IF ps = {} THEN line ELSE SubSeq(line, 1, Min(ps) - 1)

\* s.split()[-1]
LastWord(line) ==
    LET s  == RStrip(line)
        sp == {k \in 1..Len(s) : s[k] = " "}
    IN  Concat(SubSeq(s, IF sp = {} THEN 1 ELSE Max(sp) + 1, Len(s)))

\* re.match(r'[a-zA-Z0-9_]+\(.*\)\s*\{', stripped)
SyncShape(line) ==
    /\ Len(line) >= 2
    /\ IsIdent(line[1])
    /\ line[2] = "("
    /\ \E j \in 3..Len(line) :
          /\ line[j] = ")"
          /\ \/ (j + 1 <= Len(line) /\ line[j + 1] = "{")
             \/ (j + 2 <= Len(line) /\ line[j + 1] = " " /\ line[j + 2] = "{")

\* the body of the loop of extract_methods: the names one line adds
DeclaredNames(line) ==
    LET stripped == Strip(line)
    IN  IF stripped = <<>> \/ IsMarker(stripped) THEN {}
        ELSE IF StartsWith(stripped, <<"async", " ">>)
             THEN {LastWord(BeforeParen(stripped))}
        ELSE IF /\ SyncShape(stripped)
                /\ ~Contains(stripped, "constructor")
                /\ ~Contains(stripped, "async")
             THEN {stripped[1]}
        ELSE {}

extract_methods(text, class_name) ==
    IF ~ClassMatches(text, class_name)
    THEN {}
    ELSE LET block == ClassBlock(text, class_name)
         IN  UNION {DeclaredNames(block[k]) : k \in 1..Len(block)}

\* --------------------------------------------------------- CoverageAnalyzer
\* [n for n in names if n != 'constructor']
Filtered(names) == SelectSeq(names, LAMBDA n : n # "constructor")

\* [n for n in filtered if n not in mem_methods]
MissingMem(names) == SelectSeq(Filtered(names), LAMBDA n : n \notin mem_methods)

\* mutant: the database list is computed against the in-memory vocabulary
MissingDbFromMem(names) == SelectSeq(Filtered(names), LAMBDA n : n \notin mem_methods)

\* [n for n in filtered if n not in db_methods]
MissingDb(names) == SelectSeq(Filtered(names), LAMBDA n : n \notin db_methods)

\* mutant: the constructor is counted
TotalWithConstructor(names) == Len(names)

\* len(filtered)
Total(names) == Len(Filtered(names))

\* the lines one section adds to SECTION_SUMMARY
SummaryOf(sec) ==
    <<[kind |-> "summary", sec |-> sec.title, total |-> Total(sec.methods),
       missing_mem |-> Len(MissingMem(sec.methods)),
       missing_db |-> Len(MissingDb(sec.methods))]>>
    \o (IF MissingMem(sec.methods) # <<>>
        THEN <<[kind |-> "missing_mem_list", names |-> MissingMem(sec.methods)]>>
        ELSE <<>>)
    \o (IF MissingDb(sec.methods) # <<>>
        THEN <<[kind |-> "missing_db_list", names |-> MissingDb(sec.methods)]>>
        ELSE <<>>)

RECURSIVE SummaryLines(_)
SummaryLines(secs) ==
    IF secs = <<>> THEN <<>> ELSE SummaryOf(Head(secs)) \o SummaryLines(Tail(secs))

\* the lines one section adds to DETAILED_METHODS
DetailOf(sec) ==
    LET filtered == Filtered(sec.methods)
    IN  IF filtered = <<>> THEN <<>>
        ELSE <<[kind |-> "heading", sec |-> sec.title]>>
             \o [k \in 1..Len(filtered) |->
                    [kind |-> "method", name |-> filtered[k],
                     inMem |-> filtered[k] \in mem_methods,
                     inDb |-> filtered[k] \in db_methods]]

RECURSIVE DetailLines(_)
DetailLines(secs) ==
    IF secs = <<>> THEN <<>> ELSE DetailOf(Head(secs)) \o DetailLines(Tail(secs))

REPORT_LINES ==
    <<[kind |-> "SECTION_SUMMARY"]>> \o SummaryLines(sections)
    \o <<[kind |-> "DETAILED_METHODS"]>> \o DetailLines(sections)

\* --------------------------------------------------------- ContractGenerator
\* <<section title, type_name, prop_name>>, in the order of the OrderedDict
SECTION_CONFIG == <<
    <<"User management (IMPORTANT: Required methods for Replit Auth)",
      "UserRepository", "users">>,
    <<"Member profiles", "MemberProfileRepository", "members">>,
    <<"Sanitized public access methods (PII-safe)",
      "PublicDirectoryRepository", "publicDirectory">>,
    <<"Contractor profiles", "ContractorRepository", "contractors">>,
    <<"Merchant profiles", "MerchantRepository", "merchants">>,
    <<"Home details", "HomeDetailsRepository", "homes">>,
    <<"Service requests", "ServiceRequestRepository", "serviceRequests">>,
    <<"Work orders", "WorkOrderRepository", "workOrders">>,
    <<"Estimates", "EstimateRepository", "estimates">>,
    <<"Invoices", "InvoiceRepository", "invoices">>,
    <<"Loyalty points", "LoyaltyRepository", "loyalty">>,
    <<"Deals", "DealRepository", "deals">>,
    <<"Messages", "MessageRepository", "messages">>,
    <<"Notifications", "NotificationRepository", "notifications">>,
    <<"Notification Settings", "NotificationSettingsRepository", "notificationSettings">>,
    <<"Calendar events", "CalendarRepository", "calendar">>,
    <<"Community", "CommunityRepository", "community">>,
    <<"Forums", "ForumRepository", "forums">>,
    <<"Forum Topics", "ForumTopicRepository", "forumTopics">>,
    <<"Forum Posts", "ForumPostRepository", "forumPosts">>,
    <<"Forum Post Voting", "ForumVoteRepository", "forumVotes">>,
    <<"Forum Statistics and Analytics", "ForumAnalyticsRepository", "forumAnalytics">>,
    <<"Forum Moderation", "ForumModerationRepository", "forumModeration">>,
    <<"Gamification - Badges", "BadgeRepository", "badges">>,
    <<"Gamification - Ranks", "RankRepository", "ranks">>,
    <<"Gamification - Achievements", "AchievementRepository", "achievements">>,
    <<"Maintenance Items", "MaintenanceRepository", "maintenance">>,
    <<"Time slot management", "SchedulingSlotRepository", "schedulingSlots">>,
    <<"Work order scheduling queries", "SchedulingWorkOrderRepository", "schedulingWorkOrders">>,
    <<"Schedule conflict management", "SchedulingConflictRepository", "schedulingConflicts">>,
    <<"Schedule audit logging", "SchedulingAuditRepository", "schedulingAudit">>,
    <<"Data seeding and initialization", "SeedRepository", "seed">>
>>

\* mutant: the keys are collected in reverse (insert(0, n) for append(n))
ContractMethodsReversed(secs, sec) ==
    LET methods == Filtered(MethodsOf(secs, sec))
    IN  [k \in 1..Len(methods) |-> methods[Len(methods) + 1 - k]]

\* mutant: only the methods the database implementation covers are kept
ContractMethodsCovered(secs, sec) ==
    SelectSeq(Filtered(MethodsOf(secs, sec)), LAMBDA n : n \in db_methods)

\* methods = [n for n in sections.get(sec, []) if n != 'constructor']
ContractMethods(secs, sec) == Filtered(MethodsOf(secs, sec))

\* mutant: the "if not methods: continue" is missing
RECURSIVE EmittedAll(_, _)
EmittedAll(cfg, secs) ==
    IF cfg = <<>> THEN <<>>
    ELSE <<[type_name |-> Head(cfg)[2], prop_name |-> Head(cfg)[3],
            keys |-> ContractMethods(secs, Head(cfg)[1])]>>
         \o EmittedAll(Tail(cfg), secs)

\* the loop over SECTION_CONFIG: the entries it does not skip, in its order,
\* each with the keys of its Pick<IStorage, ...>
RECURSIVE Emitted(_, _)
Emitted(cfg, secs) ==
    IF cfg = <<>> THEN <<>>
    ELSE LET methods == ContractMethods(secs, Head(cfg)[1])
         IN  (IF methods = <<>>
              THEN <<>>
              ELSE <<[type_name |-> Head(cfg)[2], prop_name |-> Head(cfg)[3],
                      keys |-> methods]>>)
             \o Emitted(Tail(cfg), secs)

repository_entries == Emitted(SECTION_CONFIG, sections)

contracts_lines ==
    LET entries == repository_entries
    IN  <<[kind |-> "import"], [kind |-> "blank"]>>
        \o [k \in 1..Len(entries) |->
               [kind |-> "type", type_name |-> entries[k].type_name,
                keys |-> entries[k].keys]]
        \o <<[kind |-> "interface_open"]>>
        \o [k \in 1..Len(entries) |->
               [kind |-> "property", prop_name |-> entries[k].prop_name,
                type_name |-> entries[k].type_name]]
        \o <<[kind |-> "interface_close"], [kind |-> "factory_open"]>>
        \o [k \in 1..Len(entries) |->
               [kind |-> "factory_entry", prop_name |-> entries[k].prop_name,
                type_name |-> entries[k].type_name]]
        \o <<[kind |-> "factory_close"]>>

\* ------------------------------------------------------------------- inputs
\* lines of server/storage.ts inside the interface
MarkerDeals     == <<" ", "//", " ", "Deals">>
MarkerEstimates == <<" ", "//", "Estimates">>
SigGetDeal      == <<" ", "getDeal", "(", "id", ")", ";">>
SigCreateDeal   == <<" ", "createDeal", "(", "deal", ")", ";">>
PropertyLine    == <<" ", "readonly", " ", "size", ";">>

BodyLineSet == {MarkerDeals, MarkerEstimates, SigGetDeal, SigCreateDeal, PropertyLine}

\* lines of the implementation classes
Closing         == <<"}">>
InnerClosing    == <<" ", "}">>
MemHeader       == <<"export", " ", "class", " ", "MemStorage", " ",
                     "implements", " ", "IStorage", " ", "{">>
DbHeader        == <<"export", " ", "class", " ", "DbStorage", " ",
                     "implements", " ", "IStorage", " ", "{">>
CacheHeader     == <<"class", " ", "DealCache", " ", "{">>
Constructor     == <<" ", "constructor", "(", ")", " ", "{">>
AsyncGetDeal    == <<" ", "async", " ", "getDeal", "(", "id", ")", " ", "{">>
AsyncCreateDeal == <<" ", "async", " ", "createDeal", "(", "deal", ")", " ", "{">>
NestedRetry     == <<" ", "retry", "(", ")", " ", "{">>
SyncReset       == <<" ", "reset", "(", ")", " ", "{">>

MemClass == <<MemHeader, Constructor, InnerClosing, AsyncGetDeal, InnerClosing,
              SyncReset, InnerClosing, Closing>>

\* what precedes the interface body: the header line, or nothing
HeadSet == {<<IStorageHeader>>, <<>>}

\* what follows it: nothing; the closing line alone; a marker and a signature
\* before the closing line; the closing line and class MemStorage; the same
\* followed by another class; the closing line and a class MemStorage that is
\* cut off before its closing line
TailSet == {<<>>,
            <<Closing>>,
            <<MarkerDeals, SigCreateDeal, Closing>>,
            <<Closing>> \o MemClass,
            <<Closing>> \o MemClass
                \o <<CacheHeader, AsyncCreateDeal, InnerClosing, Closing>>,
            <<Closing, MemHeader, AsyncGetDeal, InnerClosing>>}

RECURSIVE SeqsUpTo(_, _)
SeqsUpTo(S, n) ==
    IF n = 0 THEN {<<>>}
    ELSE LET shorter == SeqsUpTo(S, n - 1)
         IN  shorter \cup {Append(q, x) : q \in shorter, x \in S}

InterfaceTexts ==
    {h \o b \o t : h \in HeadSet, b \in SeqsUpTo(BodyLineSet, MaxBodyLen), t \in TailSet}

\* server/storage.db.ts: class DbStorage complete; with a nested declaration
\* and followed by another class; cut off before its closing line
DbTexts == {
    <<DbHeader, AsyncGetDeal, InnerClosing, AsyncCreateDeal, InnerClosing, Closing>>,
    <<DbHeader, AsyncGetDeal, NestedRetry, InnerClosing, InnerClosing, Closing,
      CacheHeader, AsyncCreateDeal, InnerClosing, Closing>>,
    <<DbHeader, AsyncGetDeal, InnerClosing>>
}

\* ------------------------------------------------------------- state machine
Init ==
    /\ pc = "start"
    /\ run = 1
    /\ interface_text \in InterfaceTexts
    /\ body = <<>>
    /\ idx = 0
    /\ current = "General"
    /\ sections = <<>>
    /\ mem_methods = {}
    /\ db_text = <<>>
    /\ db_methods = {}
    /\ report_file = <<>>
    /\ contracts_file = <<>>
    /\ written = {}
    /\ prev_db_text = <<>>
    /\ prev_report = <<>>
    /\ prev_contracts = <<>>

\* lines 9-12 and 14-15: the interface is found
MatchInterface ==
    /\ pc = "start"
    /\ InterfaceMatches(interface_text)
    /\ body' = InterfaceBody(interface_text)
    /\ idx' = 0
    /\ current' = "General"
    /\ sections' = <<>>
    /\ pc' = "sections"
    /\ UNCHANGED <<run, interface_text, mem_methods, db_text, db_methods,
                   report_file, contracts_file, written,
                   prev_db_text, prev_report, prev_contracts>>

\* mutant: the raise is missing and the run goes on with an empty body
InterfaceNotFoundIgnored ==
    /\ pc = "start"
    /\ ~InterfaceMatches(interface_text)
    /\ body' = <<>>
    /\ idx' = 0
    /\ pc' = "sections"
    /\ UNCHANGED <<run, interface_text, current, sections,
                   mem_methods, db_text, db_methods,
                   report_file, contracts_file, written,
                   prev_db_text, prev_report, prev_contracts>>

\* lines 9-11: raise SystemExit('IStorage interface not found')
InterfaceNotFound ==
    /\ pc = "start"
    /\ ~InterfaceMatches(interface_text)
    /\ pc' = "aborted"
    /\ UNCHANGED <<run, interface_text, body, idx, current, sections,
                   mem_methods, db_text, db_methods,
                   report_file, contracts_file, written,
                   prev_db_text, prev_report, prev_contracts>>

\* lines 16-26: one turn of the loop over body.split('\n')
SectionStep ==
    /\ pc = "sections"
    /\ idx < Len(body)
    /\ idx' = idx + 1
    /\ LET line == Strip(body[idx + 1])
       IN  IF line = <<>>
           THEN UNCHANGED <<current, sections>>
           ELSE IF IsMarker(line)
           THEN /\ current' = MarkerTitle(line)
                /\ sections' = SetDefault(sections, MarkerTitle(line))
           ELSE IF SignatureScanner(line) # <<>>
           THEN /\ sections' = AppendMethod(sections, current, SignatureScanner(line)[1])
                /\ UNCHANGED current
           ELSE UNCHANGED <<current, sections>>
    /\ UNCHANGED <<pc, run, interface_text, body, mem_methods, db_text, db_methods,
                   report_file, contracts_file, written,
                   prev_db_text, prev_report, prev_contracts>>

\* line 48: mem_methods = extract_methods(interface_text, 'MemStorage')
ExtractMem ==
    /\ pc = "sections"
    /\ idx = Len(body)
    /\ mem_methods' = extract_methods(interface_text, "MemStorage")
    /\ pc' = "read_db"
    /\ UNCHANGED <<run, interface_text, body, idx, current, sections,
                   db_text, db_methods, report_file, contracts_file, written,
                   prev_db_text, prev_report, prev_contracts>>

\* lines 49-50: server/storage.db.ts is read and scanned
ExtractDb ==
    /\ pc = "read_db"
    /\ \E text \in DbTexts :
          /\ db_text' = text
          /\ db_methods' = extract_methods(text, "DbStorage")
    /\ pc' = "report"
    /\ UNCHANGED <<run, interface_text, body, idx, current, sections,
                   mem_methods, report_file, contracts_file, written,
                   prev_db_text, prev_report, prev_contracts>>

\* mutant: the report is appended to the file instead of written over it
WriteReportAppend ==
    /\ pc = "report"
    /\ report_file' = report_file \o REPORT_LINES
    /\ written' = written \cup {"report"}
    /\ pc' = "contracts"
    /\ UNCHANGED <<run, interface_text, body, idx, current, sections,
                   mem_methods, db_text, db_methods, contracts_file,
                   prev_db_text, prev_report, prev_contracts>>

\* lines 52-73: the report is built and written over storage_phase1_report.txt
WriteReport ==
    /\ pc = "report"
    /\ report_file' = REPORT_LINES
    /\ written' = written \cup {"report"}
    /\ pc' = "contracts"
    /\ UNCHANGED <<run, interface_text, body, idx, current, sections,
                   mem_methods, db_text, db_methods, contracts_file,
                   prev_db_text, prev_report, prev_contracts>>

\* lines 110-131: the contracts are built and written over storage/contracts.ts
WriteContracts ==
    /\ pc = "contracts"
    /\ contracts_file' = contracts_lines
    /\ written' = written \cup {"contracts"}
    /\ pc' = "done"
    /\ UNCHANGED <<run, interface_text, body, idx, current, sections,
                   mem_methods, db_text, db_methods, report_file,
                   prev_db_text, prev_report, prev_contracts>>

\* the script is run again on the same server/storage.ts; the two output files
\* are left as the run before wrote them
RunAgain ==
    /\ pc = "done"
    /\ run < MaxRuns
    /\ run' = run + 1
    /\ pc' = "start"
    /\ body' = <<>>
    /\ idx' = 0
    /\ current' = "General"
    /\ sections' = <<>>
    /\ mem_methods' = {}
    /\ db_text' = <<>>
    /\ db_methods' = {}
    /\ written' = {}
    /\ prev_db_text' = db_text
    /\ prev_report' = report_file
    /\ prev_contracts' = contracts_file
    /\ UNCHANGED <<interface_text, report_file, contracts_file>>

Next ==
    \/ MatchInterface
    \/ InterfaceNotFound
    \/ SectionStep
    \/ ExtractMem
    \/ ExtractDb
    \/ WriteReport
    \/ WriteContracts
    \/ RunAgain

Spec == Init /\ [][Next]_vars

\* ------------------------------------------------- what the body declares
\* the body has been taken from the interface text and the loop has begun
InBody == pc \notin {"start", "aborted"}

\* the loop over the body has ended
BodyDone == InBody /\ idx = Len(body)

\* what each of the first n lines of the body declares: whether it is a
\* marker, whether it is a signature, the title that owns it (that of the
\* nearest marker at or before it, or 'General') and the name it declares
Declarations(n) ==
    LET stripped == [k \in 1..n |-> Strip(body[k])]
        markers  == {k \in 1..n : IsMarker(stripped[k])}
    IN  [k \in 1..n |->
            LET before    == {j \in markers : j <= k}
                signature == k \notin markers /\ SignatureScanner(stripped[k]) # <<>>
            IN  [marker    |-> k \in markers,
                 signature |-> signature,
                 owner     |-> IF before = {} THEN "General"
                               ELSE MarkerTitle(stripped[Max(before)]),
                 name      |-> IF signature THEN SignatureScanner(stripped[k])[1] ELSE ""]]

\* the signatures among them, and their names
Signatures(d) == {k \in 1..Len(d) : d[k].signature}

BodyNames(d) == {d[k].name : k \in Signatures(d)}

\* the lines at which a title appears: its marker, or a signature it owns
Appearances(d, title) ==
    {k \in 1..Len(d) : (d[k].marker \/ d[k].signature) /\ d[k].owner = title}

\* the names declared under a title, in declaration order
NamesUnder(d, title) ==
    LET under == SelectSeq(d, LAMBDA r : r.signature /\ r.owner = title)
    IN  [i \in 1..Len(under) |-> under[i].name]

\* how often x occurs in a sequence
Count(seq, x) == Cardinality({i \in 1..Len(seq) : seq[i] = x})

Range(seq) == {seq[i] : i \in 1..Len(seq)}

SectionTitles == Range(Titles(sections))

SectionNames == UNION {Range(sections[k].methods) : k \in 1..Len(sections)}

\* ---------------------------------------------------------------------- C1
\* C1 as stated: once the body is read, every method name that occurs in it is
\* in the method list of exactly one section.
C1_OneSectionPerName ==
    BodyDone =>
        \A name \in BodyNames(Declarations(idx)) :
            Cardinality({k \in 1..Len(sections) :
                            name \in Range(sections[k].methods)}) = 1

\* C1 amended: every method declaration of the body lines read so far is one
\* entry of the section of its nearest preceding marker (or 'General'): each
\* section lists a name exactly as often as the name is declared under its
\* title, and no section lists anything else.
C1_PartitionOfDeclarations ==
    InBody =>
        LET d == Declarations(idx)
        IN  /\ \A title \in SectionTitles \cup {d[k].owner : k \in Signatures(d)} :
                  \A name \in SectionNames \cup BodyNames(d) :
                      Count(MethodsOf(sections, title), name)
                          = Cardinality({k \in Signatures(d) :
                                            d[k].name = name /\ d[k].owner = title})
            /\ Cardinality(SectionTitles) = Len(sections)

\* a name declared under two titles, and so listed by two sections
C1_Witness ==
    /\ BodyDone
    /\ LET d == Declarations(idx)
       IN  \E j, k \in Signatures(d) :
              /\ d[j].name = d[k].name
              /\ d[j].owner # d[k].owner
              /\ d[j].name \in Range(MethodsOf(sections, d[j].owner))
              /\ d[k].name \in Range(MethodsOf(sections, d[k].owner))

\* --------------------------------------------------------------------- C10
\* C10: sections are in the order in which their titles first appear in the
\* body (a marker, or for 'General' a signature before any marker); each
\* section lists the names declared under its title in declaration order, also
\* when its marker occurs again; a marker without methods has an empty section.
C10_FirstAppearanceOrder ==
    InBody =>
        LET d == Declarations(idx)
        IN  /\ \A k \in 1..Len(sections) :
                  /\ Appearances(d, sections[k].title) # {}
                  /\ sections[k].methods = NamesUnder(d, sections[k].title)
            /\ \A k \in 1..idx :
                  (d[k].marker \/ d[k].signature) => d[k].owner \in SectionTitles
            /\ \A j, k \in 1..Len(sections) :
                  j < k => Min(Appearances(d, sections[j].title))
                               < Min(Appearances(d, sections[k].title))

\* a marker that occurs twice, with a method before and after its second
\* occurrence, and another marker between them that has no methods
C10_Witness ==
    /\ BodyDone
    /\ LET d == Declarations(idx)
       IN  \E i, j, k \in 1..idx :
              /\ i < j /\ j < k
              /\ d[i].marker /\ d[j].marker /\ d[k].marker
              /\ d[i].owner = d[k].owner
              /\ d[j].owner # d[i].owner
              /\ MethodsOf(sections, d[j].owner) = <<>>
              /\ d[j].owner \in SectionTitles
              /\ \E a \in Signatures(d) : a < k /\ d[a].owner = d[i].owner
              /\ \E b \in Signatures(d) : b > k /\ d[b].owner = d[i].owner
              /\ Titles(sections)[1] = d[i].owner

\* ------------------------------------------------ what the report file says
\* storage_phase1_report.txt holds the report of this run
ReportWritten == pc \in {"contracts", "done"}

SummaryIdx == {k \in 1..Len(report_file) : report_file[k].kind = "summary"}

\* the place of the j-th summary line
SummaryLineOf(j) ==
    CHOOSE k \in SummaryIdx : Cardinality({i \in SummaryIdx : i < k}) = j - 1

\* the list lines of one kind that follow summary line k directly
ListsAfter(k, kind) ==
    {i \in (k + 1)..Len(report_file) :
        /\ report_file[i].kind = kind
        /\ \A m \in (k + 1)..i :
              report_file[m].kind \in {"missing_mem_list", "missing_db_list"}}

\* the missing list reported after summary line k: no line is the empty list
ReportedMissing(k, kind) ==
    IF ListsAfter(k, kind) = {} THEN <<>> ELSE report_file[Min(ListsAfter(k, kind))].names

\* one summary line per section, in the order of the sections
SummaryPerSection ==
    /\ Cardinality(SummaryIdx) = Len(sections)
    /\ \A j \in 1..Len(sections) :
          report_file[SummaryLineOf(j)].sec = sections[j].title

\* the report says of section j that `expected` is missing from one implementation
ReportsMissing(j, listKind, count, expected) ==
    /\ ReportedMissing(SummaryLineOf(j), listKind) = expected
    /\ Cardinality(ListsAfter(SummaryLineOf(j), listKind)) = (IF expected = <<>> THEN 0 ELSE 1)
    /\ count = Len(expected)

\* ---------------------------------------------------------------------- C2
\* C2 as stated: for every section and each implementation, the reported
\* missing list is the section's method names that are not in the vocabulary,
\* in section order, and the reported count is its length.
C2_MissingIsSectionMinusVocabulary ==
    ReportWritten =>
        /\ SummaryPerSection
        /\ \A j \in 1..Len(sections) :
              LET line == report_file[SummaryLineOf(j)]
              IN  /\ ReportsMissing(j, "missing_mem_list", line.missing_mem,
                        SelectSeq(sections[j].methods, LAMBDA n : n \notin mem_methods))
                  /\ ReportsMissing(j, "missing_db_list", line.missing_db,
                        SelectSeq(sections[j].methods, LAMBDA n : n \notin db_methods))

\* C2 amended: for every section and each implementation, the reported missing
\* list is the section's method names other than 'constructor' that are not in
\* the vocabulary, in section order, and the reported count is its length.
C2_MissingIsFilteredMinusVocabulary ==
    ReportWritten =>
        /\ SummaryPerSection
        /\ \A j \in 1..Len(sections) :
              LET line == report_file[SummaryLineOf(j)]
              IN  /\ ReportsMissing(j, "missing_mem_list", line.missing_mem,
                        SelectSeq(sections[j].methods,
                                  LAMBDA n : n # "constructor" /\ n \notin mem_methods))
                  /\ ReportsMissing(j, "missing_db_list", line.missing_db,
                        SelectSeq(sections[j].methods,
                                  LAMBDA n : n # "constructor" /\ n \notin db_methods))

\* a section that lists the constructor and two methods, one of them missing
\* from MemStorage, and a different list missing from DbStorage
C2_Witness ==
    /\ ReportWritten
    /\ \E j \in 1..Len(sections) :
          LET k == SummaryLineOf(j)
          IN  /\ "constructor" \in Range(sections[j].methods)
              /\ report_file[k].total >= 2
              /\ report_file[k].missing_mem = 1
              /\ ReportedMissing(k, "missing_mem_list") # ReportedMissing(k, "missing_db_list")
              /\ ReportedMissing(k, "missing_db_list") # <<>>

\* ---------------------------------------------------------------------- C3
\* C3 as stated: total=<n> of a section is the number of distinct method names
\* of the section other than 'constructor'.
C3_TotalIsDistinctNames ==
    ReportWritten =>
        \A j \in 1..Len(sections) :
            report_file[SummaryLineOf(j)].total
                = Cardinality(Range(sections[j].methods) \ {"constructor"})

\* C3 amended: total=<n> of a section is the number of method declarations of
\* the section other than 'constructor', a name counted once for each time it
\* is declared under the section.
C3_TotalIsDeclarations ==
    ReportWritten =>
        /\ SummaryPerSection
        /\ \A j \in 1..Len(sections) :
              report_file[SummaryLineOf(j)].total
                  = Cardinality({i \in 1..Len(sections[j].methods) :
                                    sections[j].methods[i] # "constructor"})

\* a section that declares one name twice and lists the constructor
C3_Witness ==
    /\ ReportWritten
    /\ \E j \in 1..Len(sections) :
          /\ "constructor" \in Range(sections[j].methods)
          /\ \E name \in Range(sections[j].methods) :
                name # "constructor" /\ Count(sections[j].methods, name) = 2
          /\ report_file[SummaryLineOf(j)].total
                > Cardinality(Range(sections[j].methods) \ {"constructor"})

\* ---------------------------------------------------------------------- C4
\* the class is matched by name in the text, but no body of it can be located
NamedWithoutBody(text, class_name) ==
    /\ ClassLines(text, class_name) # {}
    /\ \/ BracesAfterClass(text, class_name, Min(ClassLines(text, class_name))) = {}
       \/ \A c \in 1..Len(text) :
             (text[c] # <<>> /\ text[c][1] = "}")
                 => c <= OpenBrace(text, class_name, Min(ClassLines(text, class_name)))[1]

\* a header of the interface with a closing line somewhere after it
InterfaceDelimited ==
    \E h \in 1..Len(interface_text) :
        /\ Occurrences(interface_text[h], IStorageHeader) # {}
        /\ \E c \in (h + 1)..Len(interface_text) :
              StartsWith(interface_text[c], <<"}">>)

\* both implementations have been scanned
Scanned == pc \in {"report", "contracts", "done"}

\* C4 as stated: when the interface body cannot be located, or when a class is
\* matched by name and its body cannot be located, the run aborts and writes
\* neither file.
C4_StructuralFailuresAbort ==
    /\ (~InterfaceDelimited /\ pc # "start") => (pc = "aborted" /\ written = {})
    /\ Scanned => /\ ~NamedWithoutBody(interface_text, "MemStorage")
                  /\ ~NamedWithoutBody(db_text, "DbStorage")

\* C4 amended: when the interface body cannot be located the run aborts and
\* writes neither file, and it aborts for no other reason; a class that is
\* matched by name and whose body cannot be located has the empty vocabulary,
\* and the run goes on to write both files.
C4_OnlyInterfaceFailureAborts ==
    /\ (~InterfaceDelimited /\ pc # "start")
          => (pc = "aborted" /\ written = {} /\ report_file = <<>> /\ contracts_file = <<>>)
    /\ pc = "aborted" => ~InterfaceDelimited
    /\ (Scanned /\ NamedWithoutBody(interface_text, "MemStorage")) => mem_methods = {}
    /\ (Scanned /\ NamedWithoutBody(db_text, "DbStorage")) => db_methods = {}
    /\ pc = "done" => (written = {"report", "contracts"}
                          /\ report_file # <<>> /\ contracts_file # <<>>)

\* a finished run in which neither class has a body that can be located
C4_Witness ==
    /\ pc = "done"
    /\ NamedWithoutBody(interface_text, "MemStorage")
    /\ NamedWithoutBody(db_text, "DbStorage")
    /\ written = {"report", "contracts"}

\* ---------------------------------------------------------------------- C5
ConfigTitles == {SECTION_CONFIG[k][1] : k \in 1..Len(SECTION_CONFIG)}

\* the configured entries of the sections that have a method other than the
\* constructor
Qualifying ==
    {k \in 1..Len(SECTION_CONFIG) :
        \E j \in 1..Len(sections) :
            /\ sections[j].title = SECTION_CONFIG[k][1]
            /\ \E i \in 1..Len(sections[j].methods) :
                  sections[j].methods[i] # "constructor"}

LinesOfKind(kind) == {k \in 1..Len(contracts_file) : contracts_file[k].kind = kind}

\* C5: a narrowed type, its aggregate property and its factory entry are
\* emitted for exactly the configured titles whose section has a method other
\* than the constructor, once each; empty, unconfigured and absent sections
\* yield none of the three.
C5_SkipRule ==
    pc = "done" =>
        /\ {contracts_file[k].type_name : k \in LinesOfKind("type")}
              = {SECTION_CONFIG[k][2] : k \in Qualifying}
        /\ {<<contracts_file[k].prop_name, contracts_file[k].type_name>> :
                k \in LinesOfKind("property")}
              = {<<SECTION_CONFIG[k][3], SECTION_CONFIG[k][2]>> : k \in Qualifying}
        /\ {<<contracts_file[k].prop_name, contracts_file[k].type_name>> :
                k \in LinesOfKind("factory_entry")}
              = {<<SECTION_CONFIG[k][3], SECTION_CONFIG[k][2]>> : k \in Qualifying}
        /\ Cardinality(LinesOfKind("type")) = Cardinality(Qualifying)
        /\ Cardinality(LinesOfKind("property")) = Cardinality(Qualifying)
        /\ Cardinality(LinesOfKind("factory_entry")) = Cardinality(Qualifying)
        /\ \A k \in LinesOfKind("type") : contracts_file[k].keys # <<>>

\* a configured section with methods, a configured section without, and an
\* unconfigured section with methods, all in one run
C5_Witness ==
    /\ pc = "done"
    /\ Cardinality(LinesOfKind("type")) = 1
    /\ \E j \in 1..Len(sections) :
          sections[j].title \in ConfigTitles /\ Filtered(sections[j].methods) = <<>>
    /\ \E j \in 1..Len(sections) :
          sections[j].title \notin ConfigTitles /\ Filtered(sections[j].methods) # <<>>

\* ---------------------------------------------------------------------- C6
\* braces opened less braces closed on the lines from..to of a text, counted
\* from token `after` of line `from` on
RECURSIVE Balance(_, _, _, _)
Balance(text, from, after, to) ==
    IF from > to THEN 0
    ELSE Cardinality({t \in (after + 1)..Len(text[from]) : text[from][t] = "{"})
         - Cardinality({t \in (after + 1)..Len(text[from]) : text[from][t] = "}"})
         + Balance(text, from + 1, 0, to)

\* the names declared on the lines directly inside the body of the class: the
\* lines reached at brace depth 1 before the brace that opened the body is closed
DirectlyDeclared(text, class_name) ==
    IF ClassLines(text, class_name) = {}
          \/ BracesAfterClass(text, class_name, Min(ClassLines(text, class_name))) = {}
    THEN {}
    ELSE LET ob == OpenBrace(text, class_name, Min(ClassLines(text, class_name)))
             Depth(l) == 1 + Balance(text, ob[1], ob[2], l - 1)
         IN  UNION {DeclaredNames(text[l]) :
                       l \in {m \in (ob[1] + 1)..Len(text) :
                                 /\ Depth(m) = 1
                                 /\ \A n \in (ob[1] + 1)..m : Depth(n) >= 1}}

\* C6: the vocabulary of a class holds only the methods declared directly in
\* its own body: none declared in a construct nested in it, none declared in a
\* construct that follows its closing delimiter.
C6_OnlyDirectMethods ==
    Scanned =>
        /\ mem_methods \subseteq DirectlyDeclared(interface_text, "MemStorage")
        /\ db_methods \subseteq DirectlyDeclared(db_text, "DbStorage")

C8_CoverageDoesNotGate ==
    /\ (pc = "done" /\ run > 1) => contracts_file = prev_contracts
    /\ (pc = "aborted") => "report" \notin written
    /\ (pc = "done" /\ \E k \in 1..Len(report_file) :
                           report_file[k].kind \in {"missing_mem_list", "missing_db_list"})
          => ("contracts" \in written /\ contracts_file = contracts_lines)

\* a second run that read another vocabulary than the first and reports
\* methods missing, with a type emitted
C8_Witness ==
    /\ pc = "done"
    /\ run > 1
    /\ db_methods # extract_methods(prev_db_text, "DbStorage")
    /\ report_file # prev_report
    /\ \E k \in 1..Len(report_file) : report_file[k].kind = "missing_db_list"
    /\ LinesOfKind("type") # {}

\* ---------------------------------------------------------------------- C9
\* C9: a run on the interface text and storage.db.ts that the run before read
\* leaves both files with the content the run before gave them.
C9_Idempotence ==
    (pc = "done" /\ run > 1 /\ db_text = prev_db_text)
        => (report_file = prev_report /\ contracts_file = prev_contracts)

\* a second run on unchanged inputs that reports sections and emits a type
C9_Witness ==
    /\ pc = "done"
    /\ run > 1
    /\ db_text = prev_db_text
    /\ Len(sections) >= 2
    /\ LinesOfKind("type") # {}
    /\ report_file = prev_report

====
